---------------------------- MODULE Spec2Model ----------------------------
(***************************************************************************)
(* A model of src/pull_matches.py: the identifier sanitizers, and one run  *)
(* of main(): create_data_directory, then download_leverkusen_data, which  *)
(* lists the matches, selects row 0, names and creates the match           *)
(* directory, fetches events, frames and lineups, writes the lineup        *)
(* files, the merged 360 frames, the events and the metadata document,     *)
(* inside one try/except that prints a diagnostic and re-raises.           *)
(*                                                                         *)
(* A Python string is a sequence of one-character strings.  A Python value *)
(* held by a pandas row is a record [k, i, s, l]: its kind k ("int",       *)
(* "str", "null" or "list") and its payload (the integer i, the characters *)
(* s, or the list items l).                                                *)
(***************************************************************************)
EXTENDS Integers, Sequences, FiniteSets, TLC

VARIABLES
    provider,        \* what the provider answers in this run: matches, events, frames, lineups
    fs,              \* the filesystem: base directory, match directories, files and their contents
    pc,              \* the statement the run is at
    matches,         \* sb.matches(...) as received (line 56)
    match_row,       \* matches.iloc[0] (line 62)
    match_id,        \* int(match_row['match_id']) (line 63)
    match_dir_name,  \* line 72
    events_df,       \* line 77
    frames_df,       \* line 78
    lineups,         \* line 81
    todo,            \* the lineup items the loop of line 84 has still to write
    match_metadata,  \* line 103
    err,             \* the exception raised in this run, NoErr when none
    caught,          \* how many times the except clause of line 150 ran
    diag,            \* how many "An error occurred" lines were printed (line 151)
    complete,        \* whether main printed its final line (line 160)
    dir_existed,     \* whether the match directory was there before line 74 ran
    log,             \* the calls to the provider and to the filesystem made in this run
    text,            \* the argument handed to a sanitizer
    result           \* what sanitize_filename / sanitize_team_name returned

vars == <<provider, fs, pc, matches, match_row, match_id, match_dir_name,
          events_df, frames_df, lineups, todo, match_metadata, err, caught,
          diag, complete, dir_existed, log, text, result>>

runvars == <<provider, fs, pc, matches, match_row, match_id, match_dir_name,
             events_df, frames_df, lineups, todo, match_metadata, err, caught,
             diag, complete, dir_existed, log>>

-----------------------------------------------------------------------------
(* Bounds of the model. *)

MaxLen == 3          \* longest string handed to a sanitizer
MaxMatches == 2      \* longest match list the provider returns
MaxAbsent == 2       \* most fields a match row lacks
MaxFrames == 2       \* most rows of the frame table
MaxEvents == 2       \* most rows of the event table

-----------------------------------------------------------------------------
(* Characters and strings. *)

Letters == {"a","b","c","d","e","f","g","h","i","j","k","l","m","n","o","p","q",
            "r","s","t","u","v","w","x","y","z","A","B","C","D","E","F","G","H",
            "I","J","K","L","M","N","O","P","Q","R","S","T","U","V","W","X","Y","Z"}

DigitChars == <<"0","1","2","3","4","5","6","7","8","9">>

Digits == {DigitChars[n] : n \in 1..10}

\* str.isalnum() of one character
IsAlnum(c) == c \in Letters \cup Digits

\* what str.rstrip() removes: whitespace
IsSpace(c) == c \in {" ", "\t", "\n"}

\* c.isalnum() or c in (' ', '_', '-')   (line 30)
KeepInFilename(c) == IsAlnum(c) \/ c \in {" ", "_", "-"}

\* "".join(c for c in s if keep(c)): one character at a time, in order
RECURSIVE JoinKept(_, _)
JoinKept(s, team) ==
    IF s = <<>> THEN <<>>
    ELSE LET c == Head(s)
             keep == IF team THEN IsAlnum(c) ELSE KeepInFilename(c)
         IN  (IF keep THEN <<c>> ELSE <<>>) \o JoinKept(Tail(s), team)

\* str.rstrip(): drop characters from the right end while they are whitespace
RECURSIVE RStrip(_)
RStrip(s) ==
    IF s = <<>> THEN <<>>
    ELSE IF IsSpace(s[Len(s)]) THEN RStrip(SubSeq(s, 1, Len(s) - 1))
    ELSE s

sanitize_filename_norstrip(filename) == JoinKept(filename, FALSE)

sanitize_filename(filename) == RStrip(JoinKept(filename, FALSE))

sanitize_team_name(team_name) == JoinKept(team_name, TRUE)


-----------------------------------------------------------------------------
(* Python values and the conversions the run applies to them. *)

IntV(n) == [k |-> "int", i |-> n, s |-> <<>>, l |-> <<>>]

StrV(chars) == [k |-> "str", i |-> 0, s |-> chars, l |-> <<>>]

NullV == [k |-> "null", i |-> 0, s |-> <<>>, l |-> <<>>]

ListV(items) == [k |-> "list", i |-> 0, s |-> <<>>, l |-> items]

\* the decimal digits of a natural number
RECURSIVE NatToStr(_)
NatToStr(n) ==
    IF n < 10 THEN <<DigitChars[n + 1]>>
    ELSE NatToStr(n \div 10) \o <<DigitChars[(n % 10) + 1]>>

IntToStr(n) == IF n < 0 THEN <<"-">> \o NatToStr(-n) ELSE NatToStr(n)

\* repr of the items of a list of strings: 'a', 'b'
RECURSIVE ReprItems(_)
ReprItems(items) ==
    IF items = <<>> THEN <<>>
    ELSE <<"'">> \o Head(items) \o <<"'">>
         \o (IF Tail(items) = <<>> THEN <<>> ELSE <<",", " ">> \o ReprItems(Tail(items)))

\* str(v), which is also what an f-string writes for {v}
PyStr(v) ==
    CASE v.k = "int"  -> IntToStr(v.i)
      [] v.k = "str"  -> v.s
      [] v.k = "null" -> <<"N","o","n","e">>
      [] v.k = "list" -> <<"[">> \o ReprItems(v.l) \o <<"]">>

\* the value of a digit character
DigitVal(c) == CHOOSE n \in 0..9 : DigitChars[n + 1] = c

RECURSIVE ParseNat(_)
ParseNat(chars) ==
    IF chars = <<>> THEN 0
    ELSE 10 * ParseNat(SubSeq(chars, 1, Len(chars) - 1)) + DigitVal(chars[Len(chars)])

IsNumeral(chars) == chars # <<>> /\ \A n \in 1..Len(chars) : chars[n] \in Digits

\* int(v): the integer, or the exception int() raises
PyInt(v) ==
    CASE v.k = "int"  -> [ok |-> TRUE, n |-> v.i, err |-> "none"]
      [] v.k = "str"  -> IF IsNumeral(v.s)
                         THEN [ok |-> TRUE, n |-> ParseNat(v.s), err |-> "none"]
                         ELSE [ok |-> FALSE, n |-> 0, err |-> "ValueError"]
      [] v.k = "null" -> [ok |-> FALSE, n |-> 0, err |-> "TypeError"]
      [] v.k = "list" -> [ok |-> FALSE, n |-> 0, err |-> "TypeError"]

\* match_row.get(key, default): the default only when the key is absent
Get(row, key, default) == IF key \in DOMAIN row THEN row[key] ELSE default

-----------------------------------------------------------------------------
(* The fields of a match row and of the metadata document. *)

RowFields ==
    {"match_id", "match_date", "kick_off", "competition", "season",
     "home_team", "away_team", "home_score", "away_score", "match_status",
     "match_status_360", "last_updated", "last_updated_360", "match_week",
     "competition_stage", "stadium", "referee", "home_managers",
     "away_managers", "data_version", "shot_fidelity_version",
     "xy_fidelity_version"}

MetaFields == RowFields \cup {"competition_id", "season_id"}

IntFields == {"match_id", "competition_id", "season_id", "home_score",
              "away_score", "match_week"}

ListFields == {"home_managers", "away_managers"}

competition_id == 9

season_id == 281

Unknown == <<"U","n","k","n","o","w","n">>

\* the second argument of each match_row.get of lines 106-142
DefaultOf(f) ==
    CASE f \in {"home_score", "away_score", "match_week"} -> IntV(0)
      [] f \in {"last_updated", "last_updated_360"} -> NullV
      [] f = "competition" -> StrV(<<"1","."," ","B","u","n","d","e","s","l","i","g","a">>)
      [] f = "season" -> StrV(<<"2","0","2","3","/","2","0","2","4">>)
      [] f \in ListFields -> ListV(<<>>)
      [] OTHER -> StrV(Unknown)

\* one entry of the dict literal of lines 103-143
MetaEntry(row, mid, f) ==
    CASE f = "match_id" -> IntV(mid)
      [] f = "competition_id" -> IntV(competition_id)
      [] f = "season_id" -> IntV(season_id)
      [] f \in {"home_score", "away_score", "match_week"} ->
             IntV(PyInt(Get(row, f, DefaultOf(f))).n)
      [] f \in ListFields -> Get(row, f, DefaultOf(f))
      [] OTHER -> StrV(PyStr(Get(row, f, DefaultOf(f))))

\* the int() calls of the dict literal, in the order they are evaluated
IntCalls == <<"home_score", "away_score", "match_week">>

\* the dict of lines 103-143, or the exception its first failing int() raises
BuildMetadata(row, mid) ==
    LET bad == {n \in 1..Len(IntCalls) :
                   ~PyInt(Get(row, IntCalls[n], DefaultOf(IntCalls[n]))).ok}
    IN  IF bad = {}
        THEN [ok |-> TRUE, err |-> "none",
              meta |-> [f \in MetaFields |-> MetaEntry(row, mid, f)]]
        ELSE LET first == CHOOSE n \in bad : \A m \in bad : n <= m
             IN  [ok |-> FALSE,
                  err |-> PyInt(Get(row, IntCalls[first], DefaultOf(IntCalls[first]))).err,
                  meta |-> <<>>]

\* line 72
DirNameNoSanitize(row, home, away) ==
    <<"G","W">> \o PyStr(Get(row, "match_week", IntV(0))) \o <<"_">>
    \o row["home_team"].s \o <<"_">> \o PyStr(Get(row, "home_score", IntV(0)))
    \o <<"-">> \o PyStr(Get(row, "away_score", IntV(0))) \o <<"_">> \o row["away_team"].s

DirName(row, home, away) ==
    <<"G","W">> \o PyStr(Get(row, "match_week", IntV(0))) \o <<"_">>
    \o home \o <<"_">> \o PyStr(Get(row, "home_score", IntV(0)))
    \o <<"-">> \o PyStr(Get(row, "away_score", IntV(0))) \o <<"_">> \o away

LineupsFile(sanitized_team) == sanitized_team \o <<"_","l","i","n","e","u","p","s",".","c","s","v">>

FramesFile == <<"3","6","0","_","f","r","a","m","e","s",".","c","s","v">>

EventsFile == <<"e","v","e","n","t","s",".","c","s","v">>

MetadataFile == <<"m","e","t","a","d","a","t","a",".","j","s","o","n">>

-----------------------------------------------------------------------------
(* The frame/event merge of lines 94-95. *)

\* frames_df.rename(columns={'event_uuid': 'id'})
Rename(frames) ==
    [n \in 1..Len(frames) |->
        [match_id |-> frames[n].match_id, id |-> frames[n].event_uuid,
         teammate |-> frames[n].teammate]]

\* a merged row: the frame's columns, then the event-only column
Joined(fr, type) ==
    [match_id |-> fr.match_id, id |-> fr.id, teammate |-> fr.teammate, type |-> type]

\* the event rows with the key of frame row fr, in the event table's order
Matching(fr, events) ==
    SelectSeq(events, LAMBDA ev : ev.match_id = fr.match_id /\ ev.id = fr.id)

RowsForInner(fr, events) ==
    LET ms == Matching(fr, events)
    IN  [n \in 1..Len(ms) |-> Joined(fr, ms[n].type)]

\* the rows a left join gives one frame row: one per matching event row,
\* or the frame row alone with the event-only column empty
RowsFor(fr, events) ==
    LET ms == Matching(fr, events)
    IN  IF ms = <<>> THEN <<Joined(fr, "NaN")>>
        ELSE [n \in 1..Len(ms) |-> Joined(fr, ms[n].type)]

\* pd.merge(frames, events, how="left", on=["match_id", "id"])
RECURSIVE Merge(_, _)
Merge(frames, events) ==
    IF frames = <<>> THEN <<>>
    ELSE RowsFor(Head(frames), events) \o Merge(Tail(frames), events)

-----------------------------------------------------------------------------
(* The filesystem and the call log. *)

NoFiles == [p \in {} |-> <<>>]

\* a file written: created, or its content replaced
WriteFile(f, dir, name, content) ==
    [f EXCEPT !.files = (<<dir, name>> :> content) @@ @]

\* the names of the files directory dir holds
FilesIn(f, dir) == {p[2] : p \in {q \in DOMAIN f.files : q[1] = dir}}

Call(op, id, name, ok) == [op |-> op, id |-> id, name |-> name, ok |-> ok]

FetchOps == {"sb.events", "sb.frames", "sb.lineups"}

NoErr == "none"

\* an exception raised inside the try block of lines 54-148
Raise(kind) == err' = kind /\ pc' = "except"

-----------------------------------------------------------------------------
(* What the provider may answer. *)

SeqsUpTo(S, n) == UNION {[1..m -> S] : m \in 0..n}

Answers(ms, es, frs, ls) == [matches : ms, events : es, frames : frs, lineups : ls]

InitLocals(answers) ==
    /\ provider \in answers
    /\ fs = [base |-> FALSE, dirs |-> {}, files |-> NoFiles]
    /\ pc = "main"
    /\ matches = <<>>
    /\ match_row = <<>>
    /\ match_id = 0
    /\ match_dir_name = <<>>
    /\ events_df = <<>>
    /\ frames_df = <<>>
    /\ lineups = <<>>
    /\ todo = <<>>
    /\ match_metadata = <<>>
    /\ err = NoErr
    /\ caught = 0
    /\ diag = 0
    /\ complete = FALSE
    /\ dir_existed = FALSE
    /\ log = <<>>
    /\ result = [fn |-> "none", out |-> <<>>]

InitRun(answers) == InitLocals(answers) /\ text = <<>>

-----------------------------------------------------------------------------
(* main() and download_leverkusen_data(), one action per statement. *)

\* the statements of the try block of lines 54-148 with the events written
\* before the lineups
StatementsEventsFirst ==
    <<"matches", "select", "name", "mkdir", "events", "frames", "lineups",
      "save_events", "save_lineups", "merge", "metadata", "save_metadata", "return">>

\* the statements of the try block of lines 54-148, in the order they run
Statements ==
    <<"matches", "select", "name", "mkdir", "events", "frames", "lineups",
      "save_lineups", "merge", "save_events", "metadata", "save_metadata", "return">>

\* the statement that follows statement p
After(p) ==
    LET n == CHOOSE m \in 1..Len(Statements) : Statements[m] = p
    IN  Statements[n + 1]

\* line 158, create_data_directory: outside the try block, so its failure
\* leaves main() uncaught
CreateDataDirectory ==
    /\ pc = "main"
    /\ \E ok \in BOOLEAN :
         /\ log' = Append(log, Call("makedirs", 0, <<>>, ok))
         /\ IF ok
            THEN /\ fs' = [fs EXCEPT !.base = TRUE]
                 /\ pc' = Head(Statements)
                 /\ err' = err
            ELSE /\ fs' = fs
                 /\ pc' = "failed"
                 /\ err' = "OSError"
    /\ UNCHANGED <<provider, matches, match_row, match_id, match_dir_name,
                   events_df, frames_df, lineups, todo, match_metadata, caught,
                   diag, complete, dir_existed, text, result>>

\* lines 56-59
ListMatches ==
    /\ pc = "matches"
    /\ \E ok \in BOOLEAN :
         /\ log' = Append(log, Call("sb.matches", competition_id, <<>>, ok))
         /\ IF ok
            THEN matches' = provider.matches /\ pc' = After("matches") /\ err' = err
            ELSE matches' = matches /\ Raise("ProviderError")
    /\ UNCHANGED <<provider, fs, match_row, match_id, match_dir_name, events_df,
                   frames_df, lineups, todo, match_metadata, caught, diag,
                   complete, dir_existed, text, result>>

\* matches.iloc[0]: the first row, or IndexError on an empty table
Iloc0Last(ms) ==
    IF ms = <<>> THEN [ok |-> FALSE, row |-> <<>>] ELSE [ok |-> TRUE, row |-> ms[Len(ms)]]

Iloc0Lenient(ms) ==
    IF ms = <<>> THEN [ok |-> TRUE, row |-> ("match_id" :> IntV(0))
                                            @@ ("home_team" :> StrV(<<>>))
                                            @@ ("away_team" :> StrV(<<>>))]
    ELSE [ok |-> TRUE, row |-> ms[1]]

Iloc0(ms) ==
    IF ms = <<>> THEN [ok |-> FALSE, row |-> <<>>] ELSE [ok |-> TRUE, row |-> ms[1]]

\* lines 62-63
SelectMatch ==
    /\ pc = "select"
    /\ LET sel == Iloc0(matches)
       IN  IF ~sel.ok
           THEN Raise("IndexError") /\ UNCHANGED <<match_row, match_id>>
           ELSE IF "match_id" \notin DOMAIN sel.row
           THEN Raise("KeyError") /\ match_row' = sel.row /\ match_id' = match_id
           ELSE IF ~PyInt(sel.row["match_id"]).ok
           THEN /\ Raise(PyInt(sel.row["match_id"]).err)
                /\ match_row' = sel.row /\ match_id' = match_id
           ELSE /\ match_row' = sel.row
                /\ match_id' = PyInt(sel.row["match_id"]).n
                /\ pc' = After("select")
                /\ err' = err
    /\ UNCHANGED <<provider, fs, matches, match_dir_name, events_df, frames_df,
                   lineups, todo, match_metadata, caught, diag, complete,
                   dir_existed, log, text, result>>

\* lines 66-73: match_row['home_team'] and match_row['away_team'] are
\* subscripts, which raise KeyError on an absent key, and sanitize_team_name
\* iterates its argument, which raises TypeError on None
NameDirectory ==
    /\ pc = "name"
    /\ IF "home_team" \notin DOMAIN match_row
       THEN Raise("KeyError") /\ match_dir_name' = match_dir_name
       ELSE IF match_row["home_team"].k # "str"
       THEN Raise("TypeError") /\ match_dir_name' = match_dir_name
       ELSE IF "away_team" \notin DOMAIN match_row
       THEN Raise("KeyError") /\ match_dir_name' = match_dir_name
       ELSE IF match_row["away_team"].k # "str"
       THEN Raise("TypeError") /\ match_dir_name' = match_dir_name
       ELSE /\ match_dir_name' = DirName(match_row,
                                         sanitize_team_name(match_row["home_team"].s),
                                         sanitize_team_name(match_row["away_team"].s))
            /\ pc' = After("name")
            /\ err' = err
    /\ UNCHANGED <<provider, fs, matches, match_row, match_id, events_df,
                   frames_df, lineups, todo, match_metadata, caught, diag,
                   complete, dir_existed, log, text, result>>

\* line 74: os.makedirs(match_dir, exist_ok=True)
MakeMatchDir ==
    /\ pc = "mkdir"
    /\ \E ok \in BOOLEAN :
         /\ log' = Append(log, Call("makedirs", 0, match_dir_name, ok))
         /\ IF ok
            THEN /\ fs' = [fs EXCEPT !.dirs = @ \cup {match_dir_name}]
                 /\ dir_existed' = (match_dir_name \in fs.dirs)
                 /\ pc' = After("mkdir")
                 /\ err' = err
            ELSE /\ fs' = fs
                 /\ dir_existed' = dir_existed
                 /\ Raise("OSError")
    /\ UNCHANGED <<provider, matches, match_row, match_id, match_dir_name,
                   events_df, frames_df, lineups, todo, match_metadata, caught,
                   diag, complete, text, result>>

\* line 77
FetchEvents ==
    /\ pc = "events"
    /\ \E ok \in BOOLEAN :
         /\ log' = Append(log, Call("sb.events", match_id, <<>>, ok))
         /\ IF ok
            THEN events_df' = provider.events /\ pc' = After("events") /\ err' = err
            ELSE events_df' = events_df /\ Raise("ProviderError")
    /\ UNCHANGED <<provider, fs, matches, match_row, match_id, match_dir_name,
                   frames_df, lineups, todo, match_metadata, caught, diag,
                   complete, dir_existed, text, result>>

\* line 78
FetchFrames ==
    /\ pc = "frames"
    /\ \E ok \in BOOLEAN :
         /\ log' = Append(log, Call("sb.frames", match_id, <<>>, ok))
         /\ IF ok
            THEN frames_df' = provider.frames /\ pc' = After("frames") /\ err' = err
            ELSE frames_df' = frames_df /\ Raise("ProviderError")
    /\ UNCHANGED <<provider, fs, matches, match_row, match_id, match_dir_name,
                   events_df, lineups, todo, match_metadata, caught, diag,
                   complete, dir_existed, text, result>>

\* line 81, and the start of the loop of line 84 over lineups.items()
FetchLineups ==
    /\ pc = "lineups"
    /\ \E ok \in BOOLEAN :
         /\ log' = Append(log, Call("sb.lineups", match_id, <<>>, ok))
         /\ IF ok
            THEN /\ lineups' = provider.lineups
                 /\ todo' = provider.lineups
                 /\ pc' = After("lineups")
                 /\ err' = err
            ELSE /\ UNCHANGED <<lineups, todo>>
                 /\ Raise("ProviderError")
    /\ UNCHANGED <<provider, fs, matches, match_row, match_id, match_dir_name,
                   events_df, frames_df, match_metadata, caught, diag, complete,
                   dir_existed, text, result>>

\* line 84 when the mapping has no item left at the loop's start
SkipLineups ==
    /\ pc = "save_lineups"
    /\ todo = <<>>
    /\ pc' = After("save_lineups")
    /\ UNCHANGED <<provider, fs, matches, match_row, match_id, match_dir_name,
                   events_df, frames_df, lineups, todo, match_metadata, err,
                   caught, diag, complete, dir_existed, log, text, result>>

\* lines 84-86: one iteration of the loop
SaveLineup ==
    /\ pc = "save_lineups"
    /\ todo # <<>>
    /\ LET name == LineupsFile(sanitize_team_name(Head(todo).team))
       IN  \E ok \in BOOLEAN :
             /\ log' = Append(log, Call("to_csv", 0, name, ok))
             /\ IF ok
                THEN /\ fs' = WriteFile(fs, match_dir_name, name, Head(todo).lineup_df)
                     /\ todo' = Tail(todo)
                     /\ pc' = IF Tail(todo) = <<>> THEN After("save_lineups") ELSE "save_lineups"
                     /\ err' = err
                ELSE /\ UNCHANGED <<fs, todo>>
                     /\ Raise("OSError")
    /\ UNCHANGED <<provider, matches, match_row, match_id, match_dir_name,
                   events_df, frames_df, lineups, match_metadata, caught, diag,
                   complete, dir_existed, text, result>>

\* line 93: whether the merge of lines 94-97 runs
FramesPresentAlways(frames) == TRUE

FramesPresent(frames) == frames # <<>>

\* lines 93-97
MergeFrames ==
    /\ pc = "merge"
    /\ IF FramesPresent(frames_df)
       THEN \E ok \in BOOLEAN :
              /\ frames_df' = Rename(frames_df)
              /\ log' = Append(log, Call("to_csv", 0, FramesFile, ok))
              /\ IF ok
                 THEN /\ fs' = WriteFile(fs, match_dir_name, FramesFile,
                                         Merge(Rename(frames_df), events_df))
                      /\ pc' = After("merge")
                      /\ err' = err
                 ELSE /\ fs' = fs
                      /\ Raise("OSError")
       ELSE /\ pc' = After("merge")
            /\ UNCHANGED <<frames_df, log, fs, err>>
    /\ UNCHANGED <<provider, matches, match_row, match_id, match_dir_name,
                   events_df, lineups, todo, match_metadata, caught, diag,
                   complete, dir_existed, text, result>>

\* line 100
SaveEvents ==
    /\ pc = "save_events"
    /\ \E ok \in BOOLEAN :
         /\ log' = Append(log, Call("to_csv", 0, EventsFile, ok))
         /\ IF ok
            THEN /\ fs' = WriteFile(fs, match_dir_name, EventsFile, events_df)
                 /\ pc' = After("save_events")
                 /\ err' = err
            ELSE /\ fs' = fs
                 /\ Raise("OSError")
    /\ UNCHANGED <<provider, matches, match_row, match_id, match_dir_name,
                   events_df, frames_df, lineups, todo, match_metadata, caught,
                   diag, complete, dir_existed, text, result>>

\* lines 103-143
MakeMetadata ==
    /\ pc = "metadata"
    /\ LET built == BuildMetadata(match_row, match_id)
       IN  IF built.ok
           THEN match_metadata' = built.meta /\ pc' = After("metadata") /\ err' = err
           ELSE match_metadata' = match_metadata /\ Raise(built.err)
    /\ UNCHANGED <<provider, fs, matches, match_row, match_id, match_dir_name,
                   events_df, frames_df, lineups, todo, caught, diag, complete,
                   dir_existed, log, text, result>>

\* lines 145-146
SaveMetadata ==
    /\ pc = "save_metadata"
    /\ \E ok \in BOOLEAN :
         /\ log' = Append(log, Call("json.dump", 0, MetadataFile, ok))
         /\ IF ok
            THEN /\ fs' = WriteFile(fs, match_dir_name, MetadataFile, match_metadata)
                 /\ pc' = After("save_metadata")
                 /\ err' = err
            ELSE /\ fs' = fs
                 /\ Raise("OSError")
    /\ UNCHANGED <<provider, matches, match_row, match_id, match_dir_name,
                   events_df, frames_df, lineups, todo, match_metadata, caught,
                   diag, complete, dir_existed, text, result>>

\* line 148, the return to main, and line 160
Finish ==
    /\ pc = "return"
    /\ pc' = "done"
    /\ complete' = TRUE
    /\ UNCHANGED <<provider, fs, matches, match_row, match_id, match_dir_name,
                   events_df, frames_df, lineups, todo, match_metadata, err,
                   caught, diag, dir_existed, log, text, result>>

\* where the except clause leaves the run
AfterHandlerResume == "return"

AfterHandler == "failed"

\* lines 150-152: print the diagnostic and re-raise; main() has no handler,
\* so the exception ends the process
Handler ==
    /\ pc = "except"
    /\ caught' = caught + 1
    /\ diag' = diag + 1
    /\ pc' = AfterHandler
    /\ UNCHANGED <<provider, fs, matches, match_row, match_id, match_dir_name,
                   events_df, frames_df, lineups, todo, match_metadata, err,
                   complete, dir_existed, log, text, result>>

NextRun ==
    \/ CreateDataDirectory
    \/ ListMatches
    \/ SelectMatch
    \/ NameDirectory
    \/ MakeMatchDir
    \/ FetchEvents
    \/ FetchFrames
    \/ FetchLineups
    \/ SkipLineups
    \/ SaveLineup
    \/ MergeFrames
    \/ SaveEvents
    \/ MakeMetadata
    \/ SaveMetadata
    \/ Finish
    \/ Handler

-----------------------------------------------------------------------------
(* The provider's answers the runs are checked on. *)

\* the row of the end-to-end scenario: six fields, the others absent
RowAB ==
    ("match_id" :> IntV(123)) @@ ("match_week" :> IntV(5))
    @@ ("home_team" :> StrV(<<"T","e","a","m"," ","A">>)) @@ ("away_team" :> StrV(<<"T","e","a","m"," ","B">>))
    @@ ("home_score" :> IntV(2)) @@ ("away_score" :> IntV(1))

\* the same fixture listed with another id, week and score
RowBA ==
    ("match_id" :> IntV(124)) @@ ("match_week" :> IntV(22))
    @@ ("home_team" :> StrV(<<"T","e","a","m"," ","B">>)) @@ ("away_team" :> StrV(<<"T","e","a","m"," ","A">>))
    @@ ("home_score" :> IntV(4)) @@ ("away_score" :> IntV(4))
    @@ ("match_status" :> StrV(<<"a","v","a","i","l","a","b","l","e">>))

\* a row with all twenty-two fields
FullRow ==
    ("match_id" :> IntV(3895302))
    @@ ("match_date" :> StrV(<<"2","0","2","4","-","0","2","-","1","0">>))
    @@ ("kick_off" :> StrV(<<"1","8",":","3","0">>))
    @@ ("competition" :> StrV(<<"G","e","r","m","a","n","y"," ","-"," ","1","."," ","B","u","n","d","e","s","l","i","g","a">>))
    @@ ("season" :> StrV(<<"2","0","2","3","/","2","0","2","4">>))
    @@ ("home_team" :> StrV(<<"B","a","y","e","r"," ","L","e","v","e","r","k","u","s","e","n">>))
    @@ ("away_team" :> StrV(<<"B","a","y","e","r","n"," ","M","u","n","i","c","h">>))
    @@ ("home_score" :> IntV(3))
    @@ ("away_score" :> IntV(0))
    @@ ("match_status" :> StrV(<<"a","v","a","i","l","a","b","l","e">>))
    @@ ("match_status_360" :> StrV(<<"a","v","a","i","l","a","b","l","e">>))
    @@ ("last_updated" :> StrV(<<"2","0","2","4","-","0","3","-","0","1">>))
    @@ ("last_updated_360" :> StrV(<<"2","0","2","4","-","0","3","-","0","2">>))
    @@ ("match_week" :> IntV(5))
    @@ ("competition_stage" :> StrV(<<"R","e","g","u","l","a","r"," ","S","e","a","s","o","n">>))
    @@ ("stadium" :> StrV(<<"B","a","y","A","r","e","n","a">>))
    @@ ("referee" :> StrV(<<"F","."," ","Z","w","a","y","e","r">>))
    @@ ("home_managers" :> ListV(<<<<"X","a","b","i"," ","A","l","o","n","s","o">>>>))
    @@ ("away_managers" :> ListV(<<<<"T","h","o","m","a","s"," ","T","u","c","h","e","l">>>>))
    @@ ("data_version" :> StrV(<<"1",".","1",".","0">>))
    @@ ("shot_fidelity_version" :> StrV(<<"2">>))
    @@ ("xy_fidelity_version" :> StrV(<<"2">>))

Without(row, absent) == [f \in (DOMAIN row) \ absent |-> row[f]]

WithNull(row, nulls) == [f \in DOMAIN row |-> IF f \in nulls THEN NullV ELSE row[f]]

Event(mid, id, type) == [match_id |-> mid, id |-> id, type |-> type]

Frame(mid, uuid, teammate) == [match_id |-> mid, event_uuid |-> uuid, teammate |-> teammate]

Lineup(team, players) == [team |-> team, lineup_df |-> players]

TwoTeams == <<Lineup(<<"T","e","a","m"," ","A">>, <<"p1", "p2">>), Lineup(<<"T","e","a","m"," ","B">>, <<"p3">>)>>

\* two keys of the lineup mapping that sanitize to the same name
SameNameTeams == <<Lineup(<<"T","e","a","m"," ","A">>, <<"p1", "p2">>), Lineup(<<"T","e","a","m","A">>, <<"p4">>)>>

OneEvent == <<Event(123, "e1", "Pass")>>

TwoEvents == <<Event(123, "e1", "Pass"), Event(123, "e2", "Shot")>>

OneFrame == <<Frame(123, "e1", TRUE)>>

\* the end-to-end runs: an empty or a one-row match list, an empty or a
\* non-empty frame table
MainAnswers ==
    Answers({<<>>, <<RowAB>>}, {OneEvent, TwoEvents}, {<<>>, OneFrame},
            {<<>>, TwoTeams, SameNameTeams})

\* match lists of up to MaxMatches rows
SelectAnswers ==
    Answers(SeqsUpTo({RowAB, RowBA, FullRow}, MaxMatches), {OneEvent}, {<<>>},
            {<<>>, TwoTeams})

\* rows lacking up to MaxAbsent fields, and rows holding null in up to two
MetaRows ==
    {Without(FullRow, absent) :
        absent \in {a \in SUBSET RowFields : Cardinality(a) <= MaxAbsent}}
    \cup {WithNull(FullRow, {f, g}) : f \in RowFields, g \in ListFields}

MetaAnswers ==
    Answers({<<row>> : row \in MetaRows}, {OneEvent}, {<<>>}, {<<>>, TwoTeams})

FrameRows == {Frame(123, "e1", TRUE), Frame(123, "e1", FALSE), Frame(123, "e2", TRUE)}

EventRows == {Event(123, "e1", "Pass"), Event(123, "e1", "Shot"), Event(124, "e2", "Pass")}

\* frame tables of up to MaxFrames rows against event tables of up to MaxEvents
MergeAnswers ==
    Answers({<<RowAB>>}, SeqsUpTo(EventRows, MaxEvents),
            SeqsUpTo(FrameRows, MaxFrames), {<<>>, TwoTeams})

\* the program started again: each run is a fresh process, and only the
\* filesystem is kept from the run before
Rerun ==
    /\ pc \in {"done", "failed"}
    /\ provider' \in MainAnswers
    /\ pc' = "main"
    /\ matches' = <<>>
    /\ match_row' = <<>>
    /\ match_id' = 0
    /\ match_dir_name' = <<>>
    /\ events_df' = <<>>
    /\ frames_df' = <<>>
    /\ lineups' = <<>>
    /\ todo' = <<>>
    /\ match_metadata' = <<>>
    /\ err' = NoErr
    /\ caught' = 0
    /\ diag' = 0
    /\ complete' = FALSE
    /\ dir_existed' = FALSE
    /\ log' = <<>>
    /\ UNCHANGED <<fs, text, result>>

Init == InitRun(MainAnswers)

Next == NextRun \/ Rerun

\* runs of main(), one after another on the same filesystem
Spec == Init /\ [][Next]_vars

InitSelect == InitRun(SelectAnswers)

\* one run on each match list
SpecSelect == InitSelect /\ [][NextRun]_vars

InitMeta == InitRun(MetaAnswers)

\* one run on each match row
SpecMeta == InitMeta /\ [][NextRun]_vars

InitMerge == InitRun(MergeAnswers)

\* one run on each pair of a frame table and an event table
SpecMerge == InitMerge /\ [][NextRun]_vars

-----------------------------------------------------------------------------
(* The sanitizers applied to every string of up to MaxLen characters. *)

Alphabet == {"a", "Z", "7", " ", "_", "-", "!", "\t"}

InitSan ==
    /\ InitLocals(Answers({<<>>}, {<<>>}, {<<>>}, {<<>>}))
    /\ text \in SeqsUpTo(Alphabet, MaxLen)

\* lines 20-30
SanitizeFilename ==
    /\ result.fn = "none"
    /\ result' = [fn |-> "sanitize_filename", out |-> sanitize_filename(text)]
    /\ UNCHANGED <<runvars, text>>

\* lines 32-42
SanitizeTeamName ==
    /\ result.fn = "none"
    /\ result' = [fn |-> "sanitize_team_name", out |-> sanitize_team_name(text)]
    /\ UNCHANGED <<runvars, text>>

NextSan == SanitizeFilename \/ SanitizeTeamName

SpecSan == InitSan /\ [][NextSan]_vars

-----------------------------------------------------------------------------
(* Properties. *)

\* the calls of this run that wrote a file
Writes == {n \in DOMAIN log : log[n].op \in {"to_csv", "json.dump"}}

\* the names of the files this run wrote
Written == {log[n].name : n \in {m \in Writes : log[m].ok}}

Issued(op) == {n \in DOMAIN log : log[n].op = op}

\* the alphanumeric characters of a string, in order
AlnumOf(chars) == SelectSeq(chars, LAMBDA c : c \in Letters \cup Digits)

\* a field of a row as the directory name shows it: 0 when absent
Shown(row, f) == IF f \in DOMAIN row THEN PyStr(row[f]) ELSE <<"0">>

\* GW{week}_{home}_{homeScore}-{awayScore}_{away}
ExpectedDirName(row) ==
    <<"G", "W">> \o Shown(row, "match_week") \o <<"_">> \o AlnumOf(row["home_team"].s)
    \o <<"_">> \o Shown(row, "home_score") \o <<"-">> \o Shown(row, "away_score")
    \o <<"_">> \o AlnumOf(row["away_team"].s)

\* C10: sanitize_filename returns the characters of its input that are
\* alphanumeric, space, '_' or '-', in their order, less the trailing
\* whitespace, so its result never ends in whitespace and is empty when no
\* character is kept; sanitize_team_name returns the alphanumeric characters
\* of its input, in their order.
C10_SanitizerOutput ==
    /\ result.fn = "sanitize_filename" =>
         LET kept == SelectSeq(text, LAMBDA c : c \in Letters \cup Digits \cup {" ", "_", "-"})
             out == result.out
         IN  /\ Len(out) <= Len(kept)
             /\ out = SubSeq(kept, 1, Len(out))
             /\ \A n \in (Len(out) + 1)..Len(kept) : kept[n] = " "
             /\ out # <<>> => out[Len(out)] \notin {" ", "\t", "\n"}
    /\ result.fn = "sanitize_team_name" => result.out = AlnumOf(text)

C10_Witness ==
    /\ result.fn = "sanitize_filename"
    /\ text = <<"a", " ", "!">>
    /\ result.out = <<"a">>

\* the 360 frames file was written in this run
FramesWritten == \E n \in DOMAIN log : log[n] = Call("to_csv", 0, FramesFile, TRUE)

EventTypes == {"Pass", "Shot"}

\* C4: the merged table written for a non-empty frame table holds, for each
\* frame row, one row per event row with the same (match_id, id), carrying
\* that event row's columns, and one row with the event-only column empty
\* when no event row has that key: max(1, k) rows, and no other row.
C4_LeftJoin ==
    FramesWritten =>
      LET fr == provider.frames
          ev == provider.events
          merged == fs.files[<<match_dir_name, FramesFile>>]
          Keyed(f) == {m \in DOMAIN ev : ev[m].match_id = f.match_id /\ ev[m].id = f.event_uuid}
          Copies(f) == Cardinality({m \in DOMAIN fr : fr[m] = f})
          Out(f) == {m \in DOMAIN merged : /\ merged[m].match_id = f.match_id
                                           /\ merged[m].id = f.event_uuid
                                           /\ merged[m].teammate = f.teammate}
      IN  /\ fr # <<>>
          /\ \A n \in DOMAIN fr :
               LET f == fr[n]
                   k == Cardinality(Keyed(f))
               IN  /\ Cardinality(Out(f)) = Copies(f) * (IF k = 0 THEN 1 ELSE k)
                   /\ k = 0 => \A m \in Out(f) : merged[m].type = "NaN"
                   /\ \A t \in EventTypes :
                        Cardinality({m \in Out(f) : merged[m].type = t})
                          = Copies(f) * Cardinality({m \in Keyed(f) : ev[m].type = t})
          /\ \A m \in DOMAIN merged : \E n \in DOMAIN fr : m \in Out(fr[n])

C4_Witness ==
    /\ FramesWritten
    /\ provider.frames = <<Frame(123, "e1", TRUE), Frame(123, "e2", TRUE)>>
    /\ provider.events = <<Event(123, "e1", "Pass"), Event(123, "e1", "Shot")>>
    /\ Len(fs.files[<<match_dir_name, FramesFile>>]) = 3

BayerExample == <<"G","W","5","_","B","a","y","e","r","L","e","v","e","r","k","u","s","e","n","_","3","-","0","_","B","a","y","e","r","n","M","u","n","i","c","h">>

\* C9: the match directory name is 'GW' + week + '_' + the alphanumeric
\* characters of the home team + '_' + home score + '-' + away score + '_' +
\* the alphanumeric characters of the away team, week and scores being those
\* of the selected row and 0 when the row lacks them; for week 5, Bayer
\* Leverkusen 3, Bayern Munich 0 it is GW5_BayerLeverkusen_3-0_BayernMunich.
C9_DirectoryName ==
    match_dir_name # <<>> =>
      /\ match_dir_name = ExpectedDirName(provider.matches[1])
      /\ provider.matches[1] = FullRow => match_dir_name = BayerExample

C9_Witness ==
    /\ provider.matches[1] = Without(FullRow, {"match_week", "away_score"})
    /\ match_dir_name = <<"G","W","0","_","B","a","y","e","r","L","e","v","e","r","k","u","s","e","n","_","3","-","0","_","B","a","y","e","r","n","M","u","n","i","c","h">>

\* C8: of a non-empty match list the run uses row 0 and no other: the id of
\* every events, frames and lineups fetch, the name of the one directory it
\* creates and the metadata document it writes are those of row 0, whatever
\* the other rows hold, and each fetch is issued at most once.
C8_FirstRowOnly ==
    LET ms == provider.matches
    IN  (ms # <<>> /\ matches = ms) =>
          /\ \A n \in DOMAIN log :
               log[n].op \in FetchOps => log[n].id = ms[1]["match_id"].i
          /\ \A op \in FetchOps : Cardinality(Issued(op)) <= 1
          /\ match_dir_name # <<>> => match_dir_name = ExpectedDirName(ms[1])
          /\ fs.dirs \subseteq {ExpectedDirName(ms[1])}
          /\ \A p \in DOMAIN fs.files :
               /\ p[1] = ExpectedDirName(ms[1])
               /\ p[2] = MetadataFile =>
                    fs.files[p] = BuildMetadata(ms[1], ms[1]["match_id"].i).meta

C8_Witness ==
    /\ provider.matches = <<RowBA, RowAB>>
    /\ pc = "done"
    /\ fs.files[<<match_dir_name, MetadataFile>>]["match_id"] = IntV(124)

\* C1: when the provider's match list is empty the run raises at the
\* selection (IndexError), ends failed, and has issued no events, frames or
\* lineups fetch, created no match directory and written no file.
C1_EmptyListAborts ==
    (provider.matches = <<>>) =>
      /\ \A n \in DOMAIN log : log[n].op \in {"makedirs", "sb.matches"}
      /\ \A n \in DOMAIN log : log[n].op = "makedirs" => log[n].name = <<>>
      /\ Written = {}
      /\ match_dir_name = <<>>
      /\ pc \notin {"done", "return"}
      /\ (pc = "failed" /\ matches = <<>> /\ Issued("sb.matches") # {}
            /\ \A n \in DOMAIN log : log[n].ok) => err = "IndexError"

C1_Witness ==
    /\ provider.matches = <<>>
    /\ pc = "failed"
    /\ err = "IndexError"
    /\ log = <<Call("makedirs", 0, <<>>, TRUE), Call("sb.matches", competition_id, <<>>, TRUE)>>

\* the files a successful run writes
ExpectedArtifacts ==
    {LineupsFile(AlnumOf(provider.lineups[n].team)) : n \in DOMAIN provider.lineups}
    \cup {EventsFile, MetadataFile}
    \cup (IF provider.frames # <<>> THEN {FramesFile} ELSE {})

\* C5 as stated: after a successful run the match directory holds one
\* lineups file per team, the events file with the fetched rows, the
\* metadata document, and the 360 frames file if and only if the fetched
\* frame table was non-empty.
C5_Original ==
    pc = "done" =>
      /\ FilesIn(fs, match_dir_name) = ExpectedArtifacts
      /\ fs.files[<<match_dir_name, EventsFile>>] = provider.events

\* C5, amended: a successful run writes exactly one lineups file per
\* sanitized team name of the lineup mapping, the events file with the
\* fetched rows, the metadata document, and the 360 frames file if and only
\* if the fetched frame table was non-empty (an empty one is no error); the
\* match directory holds exactly these files when it did not exist before
\* the run, and otherwise keeps whatever else an earlier run left in it.
C5_ArtifactSet ==
    pc = "done" =>
      /\ err = NoErr
      /\ Written = ExpectedArtifacts
      /\ ExpectedArtifacts \subseteq FilesIn(fs, match_dir_name)
      /\ fs.files[<<match_dir_name, EventsFile>>] = provider.events
      /\ fs.files[<<match_dir_name, MetadataFile>>] = match_metadata
      /\ (FramesFile \in Written) = (provider.frames # <<>>)
      /\ ~dir_existed => FilesIn(fs, match_dir_name) = ExpectedArtifacts

C5_Witness ==
    /\ pc = "done"
    /\ provider.frames = <<>>
    /\ provider.lineups = TwoTeams
    /\ ~dir_existed
    /\ FramesFile \notin FilesIn(fs, match_dir_name)
    /\ Cardinality(FilesIn(fs, match_dir_name)) = 4

\* the place of a written file in the order lineups, merged frames, events,
\* metadata
Rank(name) ==
    CASE name = FramesFile -> 2
      [] name = EventsFile -> 3
      [] name = MetadataFile -> 4
      [] OTHER -> 1

\* C6: the writes of a run are made in the order lineup tables, merged
\* frame/event table, event table, metadata document; so once the metadata
\* document of the run is written, its events file and the lineups file of
\* every team have been written.
C6_PersistenceOrder ==
    /\ \A m, n \in Writes : m < n => Rank(log[m].name) <= Rank(log[n].name)
    /\ MetadataFile \in Written =>
         /\ EventsFile \in Written
         /\ \A n \in DOMAIN lineups : LineupsFile(AlnumOf(lineups[n].team)) \in Written
         /\ frames_df # <<>> => FramesFile \in Written

C6_Witness ==
    /\ MetadataFile \in Written
    /\ FramesFile \in Written
    /\ lineups = TwoTeams
    /\ Len(log) = 11

\* the run failed before the try block was entered
FailedOutsideTry == log = <<Call("makedirs", 0, <<>>, FALSE)>>

\* C7 as stated: a failure at any step, directory creation included, is
\* caught once and reported with one diagnostic line.
C7_Original ==
    pc = "failed" => caught = 1 /\ diag = 1

\* C7, amended: a failure at any step of download_leverkusen_data (match
\* listing, selection, naming and creating the match directory, a fetch, a
\* write, building the metadata) is caught exactly once, reported with one
\* diagnostic line and re-raised, and a failure creating the base directory
\* in main() is not caught and prints no diagnostic; either way the run ends
\* failed, the failing call is the last one the run makes, and no call is
\* made twice.
C7_ErrorPropagation ==
    /\ err # NoErr => pc \in {"except", "failed"}
    /\ pc = "failed" =>
         /\ err # NoErr
         /\ ~complete
         /\ IF FailedOutsideTry THEN caught = 0 /\ diag = 0 ELSE caught = 1 /\ diag = 1
    /\ pc # "failed" => caught = 0 /\ diag = 0
    /\ \A n \in DOMAIN log : ~log[n].ok => n = Len(log) /\ err # NoErr
    /\ \A op \in FetchOps \cup {"sb.matches", "json.dump"} : Cardinality(Issued(op)) <= 1
    /\ Cardinality(Issued("makedirs")) <= 2
    /\ \A m, n \in Writes :
         (m < n /\ log[m].name = log[n].name) => Rank(log[m].name) = 1
    /\ Cardinality({n \in Writes : Rank(log[n].name) = 1}) <= Len(lineups)

C7_Witness ==
    /\ pc = "failed"
    /\ err = "OSError"
    /\ caught = 1
    /\ diag = 1
    /\ log[Len(log)] = Call("to_csv", 0, EventsFile, FALSE)

\* the kind of each field of the metadata document
KindOf(f) ==
    IF f \in IntFields THEN "int" ELSE IF f \in ListFields THEN "list" ELSE "str"

\* a metadata document with every field, each of its kind
WellTyped(meta) ==
    /\ DOMAIN meta = MetaFields
    /\ \A f \in MetaFields : meta[f].k = KindOf(f)

\* the run ended, and neither the provider nor the filesystem failed it
EndedWithoutIOFailure ==
    /\ pc \in {"done", "failed"}
    /\ \A n \in DOMAIN log : log[n].ok

\* C2: for a match row that lacks any subset of its fields (match_id
\* apart, which has no default) and holds no null, the run builds a metadata
\* record with all 24 fields, each of its kind, holding the documented
\* default for every field the row lacks.
C2_Completeness ==
    LET row == provider.matches[1]
    IN  (/\ EndedWithoutIOFailure
         /\ "match_id" \in DOMAIN row
         /\ \A f \in DOMAIN row : row[f].k # "null") =>
          /\ match_metadata # <<>>
          /\ WellTyped(match_metadata)
          /\ \A f \in RowFields \ DOMAIN row :
               match_metadata[f] = IF f \in {"last_updated", "last_updated_360"}
                                   THEN StrV(<<"N", "o", "n", "e">>)
                                   ELSE DefaultOf(f)

\* C3: every metadata document the run writes has every field, each of its
\* kind and none a null, whatever the row holds.
C3_NoNull ==
    \A p \in DOMAIN fs.files : p[2] = MetadataFile => WellTyped(fs.files[p])

=============================================================================
